---------------------------- MODULE Spec2Model ----------------------------
(***************************************************************************)
(* A model of the equivariant denoising diffusion code for protein         *)
(* backbones: the sinusoidal positional encoder, the noise schedule of     *)
(* ProteinDiffusionModel, EGNNLayer.forward, ProteinDiffusionModel.forward,*)
(* the reverse sampler (sample.py) and the training driver with its        *)
(* checkpoints (train.py).                                                 *)
(*                                                                         *)
(* Numbers.  Schedule values are exact rationals [n, d] in lowest terms.   *)
(* Coordinates, noise and network outputs are fixed-point integers in      *)
(* units of 1/FxScale; a division rounds toward zero (symmetric under      *)
(* negation, as floating-point rounding is).  Tensors are functions over   *)
(* 1..len, so the source's 0-based index k is the model's k+1 wherever a   *)
(* tensor is indexed; timesteps and epochs keep the source's 0-based value.*)
(***************************************************************************)
EXTENDS Integers, Sequences, FiniteSets, TLC

VARIABLES
    \* sinusoidal_positional_encoding: one call
    pe_x,               \* the positions passed in (a 1-D tensor)
    pe_embed_dim,       \* embed_dim
    pe_embed_size,      \* embed_size
    pe_out,             \* the returned tensor, <<>> before the call
    \* ProteinDiffusionModel.__init__: the arguments and the schedule
    diffusion_steps,
    beta_start,
    beta_end,
    betas,
    alphas,
    alpha_cumprod,
    alpha_cumprod_prev,
    constructed,
    \* ProteinDiffusionModel.forward: the arguments, the locals, the result
    weights,            \* the learned weights of the layer stack
    num_egnn_layers,
    coords,             \* [B, N, num_atoms, 3]
    residue_indices,    \* [B, N]
    times,              \* [B], as the caller passed it
    atom_mask,          \* [B, N, num_atoms]
    times_norm,         \* the local `times` after line 127
    node_features,      \* [B, N, hidden_size]
    curr_coords,        \* [B, N, num_atoms, 3]
    layer,              \* layers of the stack applied so far
    cum_a_t,            \* [B], the schedule entries read at line 142
    predicted_noise,    \* the returned tensor
    pc,                 \* where the call is
    \* sample_protein_backbone: the arguments, the locals, the result
    smp_num_atoms,      \* model.num_atoms
    smp_steps,          \* the argument diffusion_steps
    smp_max_residues,   \* the argument max_residues
    smp_init_scale,
    smp_noise_scale,
    smp_coords,         \* [1, max_residues, num_atoms, 3]
    smp_atom_mask,      \* [1, max_residues, num_atoms]
    smp_t,              \* the loop variable t
    smp_calls,          \* the timesteps passed to the model, in call order
    smp_reads,          \* per iteration, the schedule indices it read
    smp_z,              \* the noise term z of the last iteration
    smp_out,            \* the returned array
    smp_pc,
    \* train.py: the driver's variables and the checkpoint file
    resume_training,
    start_epoch,
    epoch,              \* the loop variable of line 129
    train_losses,       \* one entry per appended loss: the epoch it is of
    checkpoint,         \* the content of checkpoint.pth, <<>> when absent
    interrupts,         \* interruptions of the driver so far
    trn_pc

encVars == <<pe_x, pe_embed_dim, pe_embed_size, pe_out>>
schedVars == <<diffusion_steps, beta_start, beta_end, betas, alphas,
               alpha_cumprod, alpha_cumprod_prev, constructed>>
fwdVars == <<weights, num_egnn_layers, coords, residue_indices, times,
             atom_mask, times_norm, node_features, curr_coords, layer,
             cum_a_t, predicted_noise, pc>>
smpVars == <<smp_num_atoms, smp_steps, smp_max_residues, smp_init_scale,
             smp_noise_scale, smp_coords, smp_atom_mask, smp_t, smp_calls,
             smp_reads, smp_z, smp_out, smp_pc>>
trnVars == <<resume_training, start_epoch, epoch, train_losses, checkpoint,
             interrupts, trn_pc>>
vars == <<encVars, schedVars, fwdVars, smpVars, trnVars>>

---------------------------------------------------------------------------
(* Bounds of the model *)

\* longest position tensor handed to the encoder
MaxLen == 2
\* positions range over -MaxPos..MaxPos
MaxPos == 2
\* widest embedding asked of the encoder
MaxEmbedDim == 5
\* largest diffusion_steps
MaxSteps == 3
\* beta_start and beta_end are k/BetaDen, k in 0..BetaDen
BetaDen == 6
\* largest batch
MaxBatch == 2
\* most atom slots per residue (num_atoms)
MaxAtoms == 5
\* deepest layer stack (num_egnn_layers)
MaxLayers == 2
\* epochs of a training run (num_epochs)
NumEpochs == 25
\* most interruptions of the training driver
MaxInterrupts == 2
\* most residues in a sequence (max_residues)
MaxResidues == 2
\* fixed-point numbers are integers in units of 1/FxScale
FxScale == 100

\* the frequency base of the time embedding (model.py 128)
TimeEmbedSize == 10000

\* the sampler clamps every coordinate to -10.0 .. 10.0 (sample.py 66)
ClampBound == 10

\* the trainer saves a checkpoint every 10 epochs (train.py 171)
SaveEvery == 10

\* hidden_size and edge_embed_dim of the modelled network: the smallest even
\* widths, for which every encoding entry has frequency index 0
HiddenSize == 2
EdgeEmbedDim == 2

---------------------------------------------------------------------------
(* Arithmetic *)

Abs(x) == IF x < 0 THEN -x ELSE x

Sgn(x) == IF x < 0 THEN -1 ELSE IF x > 0 THEN 1 ELSE 0

\* division rounding toward zero
TDiv(a, b) == Sgn(a) * Sgn(b) * (Abs(a) \div Abs(b))

RECURSIVE Gcd(_, _)
Gcd(a, b) == IF b = 0 THEN a ELSE Gcd(b, a % b)

\* the rational n/d in lowest terms, d > 0
Rat(n, d) ==
    LET g == Gcd(Abs(n), Abs(d))
        s == IF d < 0 THEN -1 ELSE 1
    IN  [n |-> s * (n \div g), d |-> s * (d \div g)]

RInt(k) == [n |-> k, d |-> 1]
RAdd(a, b) == Rat(a.n * b.d + b.n * a.d, a.d * b.d)
RSub(a, b) == Rat(a.n * b.d - b.n * a.d, a.d * b.d)
RMul(a, b) == Rat(a.n * b.n, a.d * b.d)
RDiv(a, b) == Rat(a.n * b.d, a.d * b.n)
RLess(a, b) ==
    LET g == Gcd(a.d, b.d) IN a.n * (b.d \div g) < b.n * (a.d \div g)
RLeq(a, b) == a = b \/ RLess(a, b)

---------------------------------------------------------------------------
(* sinusoidal_positional_encoding (model.py 6-34)                          *)
(*                                                                         *)
(* A position is a rational.  An entry of the encoding is the term         *)
(* [fn, x, k, dim, size]: fn (sin or cos) of the angle                     *)
(* x * pi * size^(-2k/dim).  TermValue gives its fixed-point value.        *)

\* fixed-point sin(pi * x), the piecewise-linear interpolation of sin through
\* the multiples of pi/2, where it is exact
SinPi(x) ==
    LET m == x.n % (2 * x.d)            \* x mod 2 = m / x.d, in [0, 2)
        y == IF 2 * m <= x.d THEN Rat(2 * m, x.d)
             ELSE IF 2 * m <= 3 * x.d THEN Rat(2 * x.d - 2 * m, x.d)
             ELSE Rat(2 * m - 4 * x.d, x.d)
    IN  TDiv(FxScale * y.n, y.d)

CosPi(x) == SinPi(RAdd(x, Rat(1, 2)))

\* the fixed-point value of an entry: exact at angle 0 for every frequency;
\* elsewhere only the lowest frequency k = 0 (inv_freq = 1) is evaluated
TermValue(e) ==
    CASE e.x.n = 0 -> (IF e.fn = "sin" THEN 0 ELSE FxScale)
      [] e.x.n # 0 /\ e.k = 0 -> (IF e.fn = "sin" THEN SinPi(e.x) ELSE CosPi(e.x))

\* torch.arange(embed_dim // 2): the frequency indices 0 .. embed_dim//2 - 1
FreqIdx(embed_dim) == [k \in 1..(embed_dim \div 2) |-> k - 1]

Term(fn, x, k, embed_dim, embed_size) ==
    [fn |-> fn, x |-> x, k |-> k, dim |-> embed_dim, size |-> embed_size]

\* the encoding of one position: torch.cat([sin, cos], dim=-1)
EncodeOne(x, embed_dim, embed_size) ==
    LET f == FreqIdx(embed_dim)
        pos_embedding_sin ==
            [k \in 1..Len(f) |-> Term("sin", x, f[k], embed_dim, embed_size)]
        pos_embedding_cos ==
            [k \in 1..Len(f) |-> Term("cos", x, f[k], embed_dim, embed_size)]
    IN  pos_embedding_sin \o pos_embedding_cos

\* the whole call, on a 1-D tensor of positions: x[..., None] broadcasts
sinusoidal_positional_encoding(x, embed_dim, embed_size) ==
    [i \in 1..Len(x) |-> EncodeOne(x[i], embed_dim, embed_size)]

\* positions are the multiples of 1/2 in -MaxPos..MaxPos
Positions == {Rat(p, 2) : p \in (-2 * MaxPos)..(2 * MaxPos)}

\* the two frequency bases the callers pass: max_residues and 10000
EmbedSizes == {MaxResidues, TimeEmbedSize}

PosTensors == UNION {[1..L -> Positions] : L \in 1..MaxLen}

EncInit ==
    /\ pe_x \in PosTensors
    /\ pe_embed_dim \in 1..MaxEmbedDim
    /\ pe_embed_size \in EmbedSizes
    /\ pe_out = <<>>

Encode ==
    /\ pe_out = <<>>
    /\ pe_out' = sinusoidal_positional_encoding(pe_x, pe_embed_dim, pe_embed_size)
    /\ UNCHANGED <<pe_x, pe_embed_dim, pe_embed_size, schedVars, fwdVars, smpVars,
                   trnVars>>

---------------------------------------------------------------------------
(* ProteinDiffusionModel.__init__: the noise schedule (model.py 82-88)     *)

\* torch.linspace(start, end, steps): steps values, evenly spaced, the
\* single value start when steps = 1
Linspace(start, end, steps) ==
    [i \in 1..steps |->
        IF steps = 1 THEN start
        ELSE RAdd(start, RMul(RInt(i - 1),
                              RDiv(RSub(end, start), RInt(steps - 1))))]

\* torch.cumprod(a, dim=0)
RECURSIVE Cumprod(_)
Cumprod(a) ==
    IF Len(a) = 0 THEN <<>>
    ELSE LET head == Cumprod(SubSeq(a, 1, Len(a) - 1))
         IN  Append(head, IF Len(head) = 0 THEN a[Len(a)]
                          ELSE RMul(head[Len(head)], a[Len(a)]))

\* a variant that forgets the shift
ShiftPrevUnshifted(c) == c

\* torch.cat([tensor([1.0]), alpha_cumprod[:-1]])
ShiftPrev(c) ==
    <<RInt(1)>> \o (IF Len(c) = 0 THEN <<>> ELSE SubSeq(c, 1, Len(c) - 1))

\* the schedule __init__ computes, as a record
ScheduleOf(steps, start, end) ==
    LET b == Linspace(start, end, steps)
        a == [i \in 1..Len(b) |-> RSub(RInt(1), b[i])]
        c == Cumprod(a)
    IN  [betas |-> b, alphas |-> a, alpha_cumprod |-> c,
         alpha_cumprod_prev |-> ShiftPrev(c)]

BetaValues == {Rat(k, BetaDen) : k \in 0..BetaDen}

SchedInit ==
    /\ diffusion_steps \in 0..MaxSteps
    /\ beta_start \in BetaValues
    /\ beta_end \in BetaValues
    /\ betas = <<>>
    /\ alphas = <<>>
    /\ alpha_cumprod = <<>>
    /\ alpha_cumprod_prev = <<>>
    /\ constructed = FALSE

Construct ==
    /\ ~constructed
    /\ LET sch == ScheduleOf(diffusion_steps, beta_start, beta_end)
       IN  /\ betas' = sch.betas
           /\ alphas' = sch.alphas
           /\ alpha_cumprod' = sch.alpha_cumprod
           /\ alpha_cumprod_prev' = sch.alpha_cumprod_prev
    /\ constructed' = TRUE
    /\ UNCHANGED <<diffusion_steps, beta_start, beta_end, encVars, fwdVars, smpVars,
                   trnVars>>

---------------------------------------------------------------------------
(* Tensors.  A coordinate tensor of one batch element is c[i][a] = <<x,y,z>> *)
(* for residue i and atom slot a; a batch is a sequence of them.           *)

\* a function over 1..n as the tuple of its values
Tup(f) == f \o <<>>

RECURSIVE SumSeq(_)
SumSeq(q) == IF Len(q) = 0 THEN 0 ELSE q[1] + SumSeq(Tail(q))

VAdd(u, v) == [k \in 1..3 |-> u[k] + v[k]]
VSub(u, v) == [k \in 1..3 |-> u[k] - v[k]]
VZero == <<0, 0, 0>>

\* the product of two fixed-point numbers
FxMul(a, b) == TDiv(a * b, FxScale)

\* nn.Linear: W x + b, W[u] the weights of output u
Linear(W, b, x) ==
    Tup([u \in 1..Len(W) |->
        TDiv(SumSeq([k \in 1..Len(x) |-> W[u][k] * x[k]]), FxScale) + b[u]])

\* nn.SiLU, x * sigmoid(x), in its piecewise form x * clip(x + 3, 0, 6) / 6
SiLU(x) ==
    IF x >= 3 * FxScale THEN x
    ELSE IF x <= -3 * FxScale THEN 0
    ELSE TDiv(x * (x + 3 * FxScale), 6 * FxScale)

SiLUAll(v) == Tup([u \in 1..Len(v) |-> SiLU(v[u])])

\* the integer square root
RECURSIVE ISqrtFrom(_, _)
ISqrtFrom(n, r) == IF (r + 1) * (r + 1) > n THEN r ELSE ISqrtFrom(n, r + 1)
ISqrt(n) == ISqrtFrom(n, 0)

\* nn.LayerNorm over the feature axis, weight 1 and bias 0 (its initial
\* state); eps only keeps the denominator from being zero
LayerNorm(v) ==
    LET n == Len(v)
        mean == TDiv(SumSeq(v), n)
        var == TDiv(SumSeq([u \in 1..n |-> (v[u] - mean) * (v[u] - mean)]), n)
        sd == ISqrt(var)
        std == IF sd = 0 THEN 1 ELSE sd
    IN  Tup([u \in 1..n |-> TDiv((v[u] - mean) * FxScale, std)])

---------------------------------------------------------------------------
(* EGNNLayer.forward (model.py 188-244), on one batch element              *)

\* line 207-209: the encoding of the pairwise residue index differences
RelResidueEnc(ridx, edge_embed_dim, max_len) ==
    [i \in 1..Len(ridx) |->
        sinusoidal_positional_encoding(
            [j \in 1..Len(ridx) |-> RInt(ridx[i] - ridx[j])],
            edge_embed_dim, max_len)]

\* a variant that averages the atoms of residue i without subtracting residue j
DirectionalVectorsAbsolute(c) ==
    Tup([i \in 1..Len(c) |-> Tup([j \in 1..Len(c) |->
        Tup([k \in 1..3 |->
            TDiv(SumSeq([a \in 1..Len(c[i]) |-> c[i][a][k]]), Len(c[i]))])])])

\* line 212-213: the atom-wise differences, averaged over the atoms
DirectionalVectors(c) ==
    Tup([i \in 1..Len(c) |-> Tup([j \in 1..Len(c) |->
        Tup([k \in 1..3 |->
            TDiv(SumSeq([a \in 1..Len(c[i]) |-> c[i][a][k] - c[j][a][k]]),
                 Len(c[i]))])])])

\* line 216-224: node features i, node features j, encoding, direction
EdgeFeatures(h, rel, d) ==
    Tup([i \in 1..Len(h) |-> Tup([j \in 1..Len(h) |->
        h[i] \o h[j] \o [k \in 1..Len(rel[i][j]) |-> TermValue(rel[i][j][k])]
             \o d[i][j]])])

\* line 166-171 and 227: Linear, SiLU, Linear, SiLU
EdgeMlp(w, x) ==
    SiLUAll(Linear(w.edge2W, w.edge2b, SiLUAll(Linear(w.edge1W, w.edge1b, x))))

\* line 174-178: Linear, SiLU, Linear
NodeMlp(w, x) ==
    Linear(w.node2W, w.node2b, SiLUAll(Linear(w.node1W, w.node1b, x)))

\* line 182-186: Linear, SiLU, Linear to one scalar
CoordMlp(w, m) ==
    Linear(w.coord2W, w.coord2b, SiLUAll(Linear(w.coord1W, w.coord1b, m)))[1]

EdgeMessages(w, h, ridx, d) ==
    LET ef == EdgeFeatures(h, RelResidueEnc(ridx, EdgeEmbedDim, MaxResidues), d)
    IN  Tup([i \in 1..Len(h) |-> Tup([j \in 1..Len(h) |-> EdgeMlp(w, ef[i][j])])])

\* line 230-234: the messages summed over the neighbours, the node MLP, the norm
UpdatedNodeFeatures(w, h, msg) ==
    [i \in 1..Len(h) |->
        LET aggregated ==
                [u \in 1..HiddenSize |->
                    SumSeq([j \in 1..Len(h) |-> msg[i][j][u]])]
        IN  LayerNorm(NodeMlp(w, h[i] \o aggregated))]

\* line 237-239: the scalar gate of every edge times its directional vector,
\* summed over the neighbours
CoordUpdates(w, msg, d) ==
    LET gate == Tup([i \in 1..Len(d) |->
                    Tup([j \in 1..Len(d) |-> CoordMlp(w, msg[i][j])])])
    IN  Tup([i \in 1..Len(d) |->
            Tup([k \in 1..3 |->
                SumSeq([j \in 1..Len(d) |-> FxMul(gate[i][j], d[i][j][k])])])])

\* a variant that adds the update to every atom slot, masked or not
UpdateCoordsUnmasked(c, upd, mask) ==
    [i \in 1..Len(c) |-> [a \in 1..Len(c[i]) |->
        [k \in 1..3 |-> c[i][a][k] + upd[i][k]]]]

\* line 242: coords + coord_updates.unsqueeze(2) * atom_mask.unsqueeze(-1)
UpdateCoords(c, upd, mask) ==
    [i \in 1..Len(c) |-> [a \in 1..Len(c[i]) |->
        [k \in 1..3 |-> c[i][a][k] + upd[i][k] * mask[i][a]]]]

\* the whole layer: (updated_coords, updated_node_features)
EGNNLayer(w, c, h, mask, ridx) ==
    LET d == DirectionalVectors(c)
        msg == EdgeMessages(w, h, ridx, d)
    IN  [coords |-> UpdateCoords(c, CoordUpdates(w, msg, d), mask),
         node_features |-> UpdatedNodeFeatures(w, h, msg)]

---------------------------------------------------------------------------
(* The learned weights.  Training may leave any weights; the model draws   *)
(* them from two settings, with different weights at every depth.  In      *)
(* "blind" the first edge layer has zero weight on the three directional   *)
(* inputs; in "directional" it reads them.                                 *)

Half == FxScale \div 2
Tenth == FxScale \div 10

LayerWeights(setting, l) ==
    [edge1W |->
        IF setting = "blind"
        THEN << <<Half, 0, Half, 0, 0, Half, 0, 0, 0>>,
                <<0, Half, 0, -Half, Half, 0, 0, 0, 0>> >>
        ELSE << <<Half, 0, Half, 0, 0, Half, Half, -Tenth, 0>>,
                <<0, Half, 0, -Half, Half, 0, Tenth, Half, -Half>> >>,
     edge1b |-> <<Tenth * l, Half>>,
     edge2W |-> << <<FxScale, -Half>>, <<Half, Half>> >>,
     edge2b |-> <<0, Tenth>>,
     node1W |-> << <<Half, 0, Tenth, 0>>, <<0, -Half, 0, Tenth>> >>,
     node1b |-> <<Tenth, 0>>,
     node2W |-> << <<FxScale, Half>>, <<-Half, FxScale>> >>,
     node2b |-> <<0, Tenth * l>>,
     coord1W |-> << <<Half, Tenth>>, <<-Tenth, Half>> >>,
     coord1b |-> <<Tenth, 0>>,
     coord2W |-> << <<Half, -Half>> >>,
     coord2b |-> <<Tenth>>]

WeightSettings == {"blind", "directional"}

---------------------------------------------------------------------------
(* ProteinDiffusionModel.forward (model.py 102-145)                        *)

\* fixed-point square root of a rational
SqrtFx(r) == ISqrt((FxScale * FxScale * r.n) \div r.d)

\* line 122-132: residue embedding plus time embedding, for one batch element
InitialNodeFeatures(ridx, t_norm) ==
    LET residue_embedding ==
            sinusoidal_positional_encoding(
                [i \in 1..Len(ridx) |-> RInt(ridx[i])], HiddenSize, MaxResidues)
        time_embedding == EncodeOne(t_norm, HiddenSize, TimeEmbedSize)
        time_values == Tup([u \in 1..Len(time_embedding) |->
                               TermValue(time_embedding[u])])
    IN  [i \in 1..Len(ridx) |->
            [u \in 1..Len(time_embedding) |->
                TermValue(residue_embedding[i][u]) + time_values[u]]]

\* line 127: times.float() / self.diffusion_steps
NormalizeTime(t, steps) == Rat(t, steps)

\* line 142: times.long(), the truncation toward zero of the local `times`
TimeIndex(t_norm) == TDiv(t_norm.n, t_norm.d)

\* indexing a tensor of length n by an index tensor: a negative index counts
\* from the end; outside -n..n-1 the lookup raises
IndexInRange(k, n) == -n <= k /\ k < n
IndexTensor(tensor, k) ==
    IF k < 0 THEN tensor[Len(tensor) + k + 1] ELSE tensor[k + 1]

\* line 143: (coords - sqrt(cum_a_t) * curr_coords) / sqrt(1 - cum_a_t)
NoiseFormula(x, cur, sqrt_a, sqrt_1_a) ==
    TDiv((x - FxMul(sqrt_a, cur)) * FxScale, sqrt_1_a)

\* line 143 and 145 on one batch element
ExtractNoiseOne(c, cur, a, mask) ==
    LET sqrt_a == SqrtFx(a)
        sqrt_1_a == SqrtFx(RSub(RInt(1), a))
    IN  [i \in 1..Len(c) |-> [s \in 1..Len(c[i]) |->
            [k \in 1..3 |->
                NoiseFormula(c[i][s][k], cur[i][s][k], sqrt_a, sqrt_1_a)
                    * mask[i][s]]]]

\* the layers lo..hi of the stack, applied in order to st = (coords, features)
RECURSIVE RunLayers(_, _, _, _, _, _)
RunLayers(setting, lo, hi, st, mask, ridx) ==
    IF lo > hi THEN st
    ELSE RunLayers(setting, lo + 1, hi,
                   EGNNLayer(LayerWeights(setting, lo), st.coords,
                             st.node_features, mask, ridx),
                   mask, ridx)

\* forward as one call on a batch of one: [ok, noise]; ok is FALSE when the
\* schedule lookup of line 142 raises
Forward(setting, depth, steps, cumprod, c, ridx, t, mask) ==
    LET t_norm == NormalizeTime(t, steps)
        st == RunLayers(setting, 1, depth,
                        [coords |-> c,
                         node_features |-> InitialNodeFeatures(ridx, t_norm)],
                        mask, ridx)
        idx == TimeIndex(t_norm)
    IN  IF IndexInRange(idx, Len(cumprod))
        THEN [ok |-> TRUE,
              noise |-> ExtractNoiseOne(c, st.coords,
                                        IndexTensor(cumprod, idx), mask)]
        ELSE [ok |-> FALSE, noise |-> <<>>]

\* the input tensors are drawn from small families: seed 1 comes with the
\* residue indices arange(N), seed 2 with labels that have an offset and gaps
Seeds == {1, 2}

RidxOf(seed, i) == IF seed = 1 THEN i - 1 ELSE 3 + 2 * (i - 1)

CoordOf(seed, b, i, a, k) ==
    ((((seed + b) * (7 * i + 3 * a + 5 * k) + seed * k * k) % 5) - 2) * FxScale

MaskOf(m, i, a) ==
    CASE m = "ones" -> 1
      [] m = "backbone" -> (IF (a - 1) \in {0, 1, 2, 4} THEN 1 ELSE 0)
      [] m = "mixed" -> (i + a) % 2

MaskKinds == {"ones", "backbone", "mixed"}

\* atom counts: the 2 of a small example and the largest
AtomCounts == {2, MaxAtoms}

\* sequence lengths: a single residue and the longest sequence
SeqLens == {1, MaxResidues}

\* timesteps handed to forward: those of the schedule
InRangeTimes(steps) == 0..(steps - 1)

\* timesteps handed to forward: all of 0..steps-1, and values outside
TimeChoices(steps) ==
    InRangeTimes(steps) \cup
    {-(steps + 1) * steps, -steps * steps, -1, steps, steps * steps}

FwdInputs(batches, inRangeOnly) ==
    /\ diffusion_steps \in 1..MaxSteps
    /\ beta_start = Rat(1, BetaDen)
    /\ beta_end = Rat(1, 2)
    /\ LET sch == ScheduleOf(diffusion_steps, beta_start, beta_end)
       IN  /\ betas = sch.betas
           /\ alphas = sch.alphas
           /\ alpha_cumprod = sch.alpha_cumprod
           /\ alpha_cumprod_prev = sch.alpha_cumprod_prev
    /\ constructed = TRUE
    /\ weights \in WeightSettings
    /\ num_egnn_layers \in 0..MaxLayers
    /\ \E B \in batches, N \in SeqLens, A \in AtomCounts,
          seed \in Seeds, m \in MaskKinds, t0 \in (IF inRangeOnly THEN InRangeTimes(diffusion_steps)
                             ELSE TimeChoices(diffusion_steps)) :
          /\ coords = [b \in 1..B |-> [i \in 1..N |-> [a \in 1..A |->
                          [k \in 1..3 |-> CoordOf(seed, b, i, a, k)]]]]
          /\ atom_mask = [b \in 1..B |-> [i \in 1..N |-> [a \in 1..A |->
                          MaskOf(m, i, a)]]]
          /\ residue_indices = [b \in 1..B |-> [i \in 1..N |->
                          RidxOf(seed, i)]]
          /\ times = [b \in 1..B |-> t0 + (b - 1)]

\* line 127 on the batch
TimesNorm(t, steps) == [b \in 1..Len(t) |-> NormalizeTime(t[b], steps)]

\* line 122-132 on the batch
NodeFeaturesOf(ridx, t_norm) ==
    [b \in 1..Len(t_norm) |-> InitialNodeFeatures(ridx[b], t_norm[b])]

FwdInit ==
    /\ FwdInputs({MaxBatch}, FALSE)
    /\ times_norm = <<>>
    /\ node_features = <<>>
    /\ curr_coords = <<>>
    /\ layer = 0
    /\ cum_a_t = <<>>
    /\ predicted_noise = <<>>
    /\ pc = "start"

\* a variant without the clone, whose layers update the tensor in place: the
\* result of the layer lands in the tensor the caller passed
CallerCoordsAliased(c, updated) == updated

\* line 135 and 242: the stack works on coords.clone() and every layer returns
\* a new tensor (coords + ...), so the tensor the caller passed keeps its values
CallerCoords(c, updated) == c

\* line 119-135: the embeddings, the initial node features, the clone
Embed ==
    /\ pc = "start"
    /\ times_norm' = TimesNorm(times, diffusion_steps)
    /\ node_features' = NodeFeaturesOf(residue_indices, times_norm')
    /\ curr_coords' = coords
    /\ layer' = 0
    /\ pc' = "layers"
    /\ UNCHANGED <<weights, num_egnn_layers, coords, residue_indices, times,
                   atom_mask, cum_a_t, predicted_noise, encVars, schedVars, smpVars, trnVars>>

\* line 138-139: one layer of the stack, on every batch element
LayerStep ==
    /\ pc = "layers"
    /\ layer < num_egnn_layers
    /\ LET w == LayerWeights(weights, layer + 1)
           out == [b \in 1..Len(curr_coords) |->
                      EGNNLayer(w, curr_coords[b], node_features[b],
                                atom_mask[b], residue_indices[b])]
       IN  /\ curr_coords' = [b \in 1..Len(out) |-> out[b].coords]
           /\ node_features' = [b \in 1..Len(out) |-> out[b].node_features]
    /\ coords' = CallerCoords(coords, curr_coords')
    /\ layer' = layer + 1
    /\ UNCHANGED <<weights, num_egnn_layers, residue_indices, times,
                   atom_mask, times_norm, cum_a_t, predicted_noise, pc,
                   encVars, schedVars, smpVars, trnVars>>

\* line 142-145: the schedule lookup, the noise formula, the mask
ExtractNoise ==
    /\ pc = "layers"
    /\ layer = num_egnn_layers
    /\ LET idx == [b \in 1..Len(times_norm) |-> TimeIndex(times_norm[b])]
       IN  IF \A b \in 1..Len(idx) : IndexInRange(idx[b], Len(alpha_cumprod))
           THEN /\ cum_a_t' = [b \in 1..Len(idx) |->
                                  IndexTensor(alpha_cumprod, idx[b])]
                /\ predicted_noise' =
                       [b \in 1..Len(idx) |->
                           ExtractNoiseOne(coords[b], curr_coords[b],
                                           cum_a_t'[b], atom_mask[b])]
                /\ pc' = "done"
           ELSE /\ pc' = "error"
                /\ UNCHANGED <<cum_a_t, predicted_noise>>
    /\ UNCHANGED <<weights, num_egnn_layers, coords, residue_indices, times,
                   atom_mask, times_norm, node_features, curr_coords, layer,
                   encVars, schedVars, smpVars, trnVars>>

---------------------------------------------------------------------------
(* sample_protein_backbone (sample.py 5-76)                                *)

\* line 25: the indices of (N, CA, C, O)
backbone_indices == <<0, 1, 2, 4>>

\* line 32-33: zeros, then ones at the backbone indices
BackboneMask(n, num_atoms) ==
    [i \in 1..n |-> [a \in 1..num_atoms |->
        IF \E q \in 1..Len(backbone_indices) : backbone_indices[q] = a - 1
        THEN 1 ELSE 0]]

\* line 33 raises when an index is not below num_atoms
BackboneIndicesFit(num_atoms) ==
    \A q \in 1..Len(backbone_indices) : backbone_indices[q] < num_atoms

\* torch.randn: a standard normal sample, drawn from a small family
Gaussians == {1, 2}

RandnOf(g, i, a, k) ==
    (((g * (5 * i + 7 * a + 3 * k) + g + k) % 5) - 2) * FxScale + 10 * g

Randn(g, n, num_atoms) ==
    [i \in 1..n |-> [a \in 1..num_atoms |-> [k \in 1..3 |-> RandnOf(g, i, a, k)]]]

ScaleAll(c, scale) ==
    [i \in 1..Len(c) |-> [a \in 1..Len(c[i]) |-> [k \in 1..3 |->
        FxMul(c[i][a][k], scale)]]]

ZerosLike(c) == [i \in 1..Len(c) |-> [a \in 1..Len(c[i]) |-> VZero]]

\* a variant that adds noise at the last step too
StepNoiseAlways(t, g, c, scale) == ScaleAll(Randn(g, Len(c), Len(c[1])), scale)

\* line 55-58: fresh noise scaled by noise_scale for t > 0, zeros at t = 0
StepNoise(t, g, c, scale) ==
    IF t > 0 THEN ScaleAll(Randn(g, Len(c), Len(c[1])), scale)
    ELSE ZerosLike(c)

\* line 49-52: (sqrt(a_prev) * coords - sqrt(1 - a_prev) * noise) / sqrt(a_t)
MeanCoords(c, noise, alpha_t_prev, alpha_t) ==
    LET sp == SqrtFx(alpha_t_prev)
        s1p == SqrtFx(RSub(RInt(1), alpha_t_prev))
        sa == SqrtFx(alpha_t)
    IN  [i \in 1..Len(c) |-> [a \in 1..Len(c[i]) |-> [k \in 1..3 |->
            TDiv((FxMul(sp, c[i][a][k]) - FxMul(s1p, noise[i][a][k])) * FxScale,
                 sa)]]]

\* line 63: coords * mask + (1 - mask) * coords
Remask(c, mask) ==
    [i \in 1..Len(c) |-> [a \in 1..Len(c[i]) |-> [k \in 1..3 |->
        c[i][a][k] * mask[i][a] + (1 - mask[i][a]) * c[i][a][k]]]]

\* a variant that leaves the coordinates as they are
ClampNot(c) == c

\* line 66: torch.clamp(coords, min=-10.0, max=10.0)
Clamp(c) ==
    [i \in 1..Len(c) |-> [a \in 1..Len(c[i]) |-> [k \in 1..3 |->
        IF c[i][a][k] < -ClampBound * FxScale THEN -ClampBound * FxScale
        ELSE IF c[i][a][k] > ClampBound * FxScale THEN ClampBound * FxScale
        ELSE c[i][a][k]]]]

\* line 73: coords * atom_mask.unsqueeze(-1)
ApplyMask(c, mask) ==
    [i \in 1..Len(c) |-> [a \in 1..Len(c[i]) |-> [k \in 1..3 |->
        c[i][a][k] * mask[i][a]]]]

\* the sampler is handed a constructed model and its own arguments
SampleInit ==
    /\ diffusion_steps \in 1..MaxSteps
    /\ beta_start = Rat(1, BetaDen)
    /\ beta_end = Rat(1, 2)
    /\ LET sch == ScheduleOf(diffusion_steps, beta_start, beta_end)
       IN  /\ betas = sch.betas
           /\ alphas = sch.alphas
           /\ alpha_cumprod = sch.alpha_cumprod
           /\ alpha_cumprod_prev = sch.alpha_cumprod_prev
    /\ constructed = TRUE
    /\ weights = "directional"
    /\ num_egnn_layers \in {0, 1}
    /\ smp_num_atoms \in {MaxAtoms - 1, MaxAtoms}
    /\ smp_steps \in 0..MaxSteps
    /\ smp_max_residues \in SeqLens
    /\ smp_init_scale \in {FxScale, 6 * FxScale}
    /\ smp_noise_scale = FxScale
    /\ smp_coords = <<>>
    /\ smp_atom_mask = <<>>
    /\ smp_t = 0
    /\ smp_calls = <<>>
    /\ smp_reads = <<>>
    /\ smp_z = <<>>
    /\ smp_out = <<>>
    /\ smp_pc = "start"

\* line 22-36: the initial noise, the residue indices, the backbone mask
SampleStart ==
    /\ smp_pc = "start"
    /\ \E g \in Gaussians :
          smp_coords' = ScaleAll(Randn(g, smp_max_residues, smp_num_atoms),
                                 smp_init_scale)
    /\ IF BackboneIndicesFit(smp_num_atoms)
       THEN /\ smp_atom_mask' = BackboneMask(smp_max_residues, smp_num_atoms)
            /\ smp_t' = smp_steps - 1
            /\ smp_pc' = "loop"
       ELSE /\ smp_pc' = "error"
            /\ UNCHANGED <<smp_atom_mask, smp_t>>
    /\ UNCHANGED <<smp_num_atoms, smp_steps, smp_max_residues, smp_init_scale,
                   smp_noise_scale, smp_calls, smp_reads, smp_z, smp_out,
                   encVars, schedVars, fwdVars, trnVars>>

\* line 39-70: one iteration of the reverse loop
SampleStep ==
    /\ smp_pc = "loop"
    /\ smp_t >= 0
    /\ smp_calls' = Append(smp_calls, smp_t)
    /\ LET ridx == [i \in 1..smp_max_residues |-> i - 1]
           predicted == Forward(weights, num_egnn_layers, diffusion_steps,
                                alpha_cumprod, smp_coords, ridx, smp_t,
                                smp_atom_mask)
       IN  IF predicted.ok
              /\ IndexInRange(smp_t, Len(alpha_cumprod_prev))
              /\ IndexInRange(smp_t, Len(alpha_cumprod))
           THEN \E g \in Gaussians :
                  LET mean_coords ==
                          MeanCoords(smp_coords, predicted.noise,
                                     IndexTensor(alpha_cumprod_prev, smp_t),
                                     IndexTensor(alpha_cumprod, smp_t))
                      z == StepNoise(smp_t, g, smp_coords, smp_noise_scale)
                      summed == [i \in 1..Len(z) |-> [a \in 1..Len(z[i]) |->
                                    VAdd(mean_coords[i][a], z[i][a])]]
                  IN  /\ smp_z' = z
                      /\ smp_coords' = Clamp(Remask(summed, smp_atom_mask))
                      /\ smp_reads' = Append(smp_reads,
                                             [model_t |-> smp_t,
                                              prev_index |-> smp_t,
                                              alpha_index |-> smp_t])
                      /\ smp_t' = smp_t - 1
                      /\ smp_pc' = "loop"
           ELSE /\ smp_pc' = "error"
                /\ UNCHANGED <<smp_z, smp_coords, smp_reads, smp_t>>
    /\ UNCHANGED <<smp_num_atoms, smp_steps, smp_max_residues, smp_init_scale,
                   smp_noise_scale, smp_atom_mask, smp_out,
                   encVars, schedVars, fwdVars, trnVars>>

\* line 72-76: zero the non-backbone atoms, drop the batch axis, return
SampleFinish ==
    /\ smp_pc = "loop"
    /\ smp_t < 0
    /\ smp_out' = ApplyMask(smp_coords, smp_atom_mask)
    /\ smp_pc' = "done"
    /\ UNCHANGED <<smp_num_atoms, smp_steps, smp_max_residues, smp_init_scale,
                   smp_noise_scale, smp_coords, smp_atom_mask, smp_t,
                   smp_calls, smp_reads, smp_z, encVars, schedVars, fwdVars, trnVars>>

---------------------------------------------------------------------------
(* The training driver (train.py 22-71, 121-172).  The loss of an epoch is *)
(* recorded as the index of the epoch it was computed in.                  *)

\* line 33-39: the dictionary written to the checkpoint file
save_checkpoint(e, losses) == <<[epoch |-> e, train_losses |-> losses]>>

\* line 68-71: (epoch, train_losses) as read back from the file
load_checkpoint(file) == <<file[1].epoch, file[1].train_losses>>

TrainInit ==
    /\ resume_training = FALSE
    /\ start_epoch = 0
    /\ epoch = 0
    /\ train_losses = <<>>
    /\ checkpoint = <<>>
    /\ interrupts = 0
    /\ trn_pc = "boot"

\* line 121-127: the driver starts, from the checkpoint when asked to resume
\* and the file exists
Boot ==
    /\ trn_pc = "boot"
    /\ IF resume_training /\ checkpoint # <<>>
       THEN LET loaded == load_checkpoint(checkpoint)
            IN  /\ start_epoch' = loaded[1]
                /\ train_losses' = loaded[2]
       ELSE /\ start_epoch' = 0
            /\ train_losses' = <<>>
    /\ epoch' = start_epoch'
    /\ trn_pc' = "train"
    /\ UNCHANGED <<resume_training, checkpoint, interrupts,
                   encVars, schedVars, fwdVars, smpVars>>

\* line 129-172: one epoch: the batches, the appended loss, the checkpoint
\* after every epoch whose 1-based number is a multiple of 10
TrainEpoch ==
    /\ trn_pc = "train"
    /\ epoch < NumEpochs
    /\ train_losses' = Append(train_losses, epoch)
    /\ checkpoint' = IF (epoch + 1) % SaveEvery = 0
                     THEN save_checkpoint(epoch, train_losses')
                     ELSE checkpoint
    /\ epoch' = epoch + 1
    /\ UNCHANGED <<resume_training, start_epoch, interrupts, trn_pc,
                   encVars, schedVars, fwdVars, smpVars>>

\* range(start_epoch, num_epochs) is exhausted
TrainDone ==
    /\ trn_pc = "train"
    /\ epoch >= NumEpochs
    /\ trn_pc' = "done"
    /\ UNCHANGED <<resume_training, start_epoch, epoch, train_losses,
                   checkpoint, interrupts, encVars, schedVars, fwdVars, smpVars>>

\* the driver is interrupted: only the checkpoint file survives, and the next
\* run is started with resume_training set
Interrupt ==
    /\ trn_pc = "train"
    /\ interrupts < MaxInterrupts
    /\ interrupts' = interrupts + 1
    /\ resume_training' = TRUE
    /\ start_epoch' = 0
    /\ epoch' = 0
    /\ train_losses' = <<>>
    /\ trn_pc' = "boot"
    /\ UNCHANGED <<checkpoint, encVars, schedVars, fwdVars, smpVars>>

---------------------------------------------------------------------------
(* Specifications *)

EncIdle == pe_x = <<>> /\ pe_embed_dim = 0 /\ pe_embed_size = 0 /\ pe_out = <<>>

SchedIdle ==
    /\ diffusion_steps = 0
    /\ beta_start = RInt(0)
    /\ beta_end = RInt(0)
    /\ betas = <<>>
    /\ alphas = <<>>
    /\ alpha_cumprod = <<>>
    /\ alpha_cumprod_prev = <<>>
    /\ constructed = FALSE

FwdIdle ==
    /\ weights = "blind"
    /\ num_egnn_layers = 0
    /\ coords = <<>>
    /\ residue_indices = <<>>
    /\ times = <<>>
    /\ atom_mask = <<>>
    /\ times_norm = <<>>
    /\ node_features = <<>>
    /\ curr_coords = <<>>
    /\ layer = 0
    /\ cum_a_t = <<>>
    /\ predicted_noise = <<>>
    /\ pc = "idle"

SmpIdle ==
    /\ smp_num_atoms = 0
    /\ smp_steps = 0
    /\ smp_max_residues = 0
    /\ smp_init_scale = 0
    /\ smp_noise_scale = 0
    /\ smp_coords = <<>>
    /\ smp_atom_mask = <<>>
    /\ smp_t = 0
    /\ smp_calls = <<>>
    /\ smp_reads = <<>>
    /\ smp_z = <<>>
    /\ smp_out = <<>>
    /\ smp_pc = "idle"

TrnIdle ==
    /\ resume_training = FALSE
    /\ start_epoch = 0
    /\ epoch = 0
    /\ train_losses = <<>>
    /\ checkpoint = <<>>
    /\ interrupts = 0
    /\ trn_pc = "idle"

\* the training driver: runs, interruptions and resumed runs
InitTrain == TrainInit /\ SchedIdle /\ FwdIdle /\ EncIdle /\ SmpIdle
NextTrain == Boot \/ TrainEpoch \/ TrainDone \/ Interrupt
SpecTrain == InitTrain /\ [][NextTrain]_vars

\* the forward-call variables, while no stepwise call is modelled
FwdCallIdle ==
    /\ coords = <<>>
    /\ residue_indices = <<>>
    /\ times = <<>>
    /\ atom_mask = <<>>
    /\ times_norm = <<>>
    /\ node_features = <<>>
    /\ curr_coords = <<>>
    /\ layer = 0
    /\ cum_a_t = <<>>
    /\ predicted_noise = <<>>
    /\ pc = "idle"

\* one run of the sampler on a constructed model
InitSample == SampleInit /\ FwdCallIdle /\ EncIdle /\ TrnIdle
NextSample == SampleStart \/ SampleStep \/ SampleFinish
SpecSample == InitSample /\ [][NextSample]_vars

\* one call of the positional encoder
InitEnc == EncInit /\ SchedIdle /\ FwdIdle /\ SmpIdle /\ TrnIdle
NextEnc == Encode
SpecEnc == InitEnc /\ [][NextEnc]_vars

\* one construction of the schedule
InitSched == SchedInit /\ EncIdle /\ FwdIdle /\ SmpIdle /\ TrnIdle
NextSched == Construct
SpecSched == InitSched /\ [][NextSched]_vars

\* a stack of EGNN layers on one batch element, from the node features
\* forward hands to the first layer
LayerInit ==
    /\ FwdInputs({1}, TRUE)
    /\ times_norm = TimesNorm(times, diffusion_steps)
    /\ node_features = NodeFeaturesOf(residue_indices, times_norm)
    /\ curr_coords = coords
    /\ layer = 0
    /\ cum_a_t = <<>>
    /\ predicted_noise = <<>>
    /\ pc = "layers"

InitLayer == LayerInit /\ EncIdle /\ SmpIdle /\ TrnIdle
NextLayer == LayerStep
SpecLayer == InitLayer /\ [][NextLayer]_vars

\* one call of forward on a constructed model
InitFwd == FwdInit /\ EncIdle /\ SmpIdle /\ TrnIdle
NextFwd == Embed \/ LayerStep \/ ExtractNoise
SpecFwd == InitFwd /\ [][NextFwd]_vars

\* one model object used by its callers in turn: forward calls, steps of the
\* trainer and steps of the sampler, one operation at a time
NoCallInFlight == pc \in {"idle", "done", "error"}

\* model.py line 102: a caller hands forward its tensors
Call ==
    /\ NoCallInFlight
    /\ \E seed \in Seeds, t0 \in {0, diffusion_steps * diffusion_steps} :
          /\ coords' = << [i \in 1..MaxResidues |-> [a \in 1..2 |->
                            [k \in 1..3 |-> CoordOf(seed, 1, i, a, k)]]] >>
          /\ atom_mask' = << [i \in 1..MaxResidues |-> [a \in 1..2 |->
                            MaskOf("mixed", i, a)]] >>
          /\ residue_indices' = << [i \in 1..MaxResidues |-> RidxOf(seed, i)] >>
          /\ times' = <<t0>>
    /\ times_norm' = <<>>
    /\ node_features' = <<>>
    /\ curr_coords' = <<>>
    /\ layer' = 0
    /\ cum_a_t' = <<>>
    /\ predicted_noise' = <<>>
    /\ pc' = "start"
    /\ UNCHANGED <<weights, num_egnn_layers, encVars, schedVars, smpVars, trnVars>>

\* train.py line 146: sqrt(alpha_cumprod) * coords + sqrt(1 - alpha_cumprod) * noise
NoisyCoords(c, noise, a) ==
    LET sqrt_a == SqrtFx(a)
        sqrt_1_a == SqrtFx(RSub(RInt(1), a))
    IN  [i \in 1..Len(c) |-> [s \in 1..Len(c[i]) |-> [k \in 1..3 |->
            FxMul(sqrt_a, c[i][s][k]) + FxMul(sqrt_1_a, noise[i][s][k])]]]

\* train.py line 136-149: one batch: the timestep is drawn, the coordinates are
\* noised with alpha_cumprod[t], and the model is called on them
TrainBatch ==
    /\ trn_pc = "train"
    /\ epoch < NumEpochs
    /\ NoCallInFlight
    /\ \E t \in InRangeTimes(diffusion_steps) :
          LET clean == [i \in 1..MaxResidues |-> [a \in 1..2 |->
                           [k \in 1..3 |-> CoordOf(1, 1, i, a, k)]]]
              noise == Randn(1, MaxResidues, 2)
          IN  /\ coords' = << NoisyCoords(clean, noise, IndexTensor(alpha_cumprod, t)) >>
              /\ times' = <<t>>
    /\ atom_mask' = << [i \in 1..MaxResidues |-> [a \in 1..2 |->
                          MaskOf("mixed", i, a)]] >>
    /\ residue_indices' = << [i \in 1..MaxResidues |-> RidxOf(1, i)] >>
    /\ times_norm' = <<>>
    /\ node_features' = <<>>
    /\ curr_coords' = <<>>
    /\ layer' = 0
    /\ cum_a_t' = <<>>
    /\ predicted_noise' = <<>>
    /\ pc' = "start"
    /\ UNCHANGED <<weights, num_egnn_layers, encVars, schedVars, smpVars, trnVars>>

\* train.py line 152-161: the loss, the backward pass and optimizer.step(),
\* which updates model.parameters(): the weights of the layers
OptimizerStep ==
    /\ trn_pc = "train"
    /\ pc = "done"
    /\ weights' \in WeightSettings
    /\ pc' = "idle"
    /\ UNCHANGED <<num_egnn_layers, coords, residue_indices, times, atom_mask,
                   times_norm, node_features, curr_coords, layer, cum_a_t,
                   predicted_noise, encVars, schedVars, smpVars, trnVars>>

\* the sampler's steps on the same model, between the calls of other callers
SamplerTurn == NoCallInFlight /\ (SampleStart \/ SampleStep \/ SampleFinish)

\* the model of train.py line 89-99 and its callers before their first step
FrameInit ==
    /\ SampleInit
    /\ diffusion_steps = MaxSteps
    /\ num_egnn_layers = 1
    /\ smp_num_atoms = MaxAtoms
    /\ smp_steps = 2
    /\ smp_max_residues = 1
    /\ smp_init_scale = FxScale
    /\ coords = <<>>
    /\ residue_indices = <<>>
    /\ times = <<>>
    /\ atom_mask = <<>>
    /\ times_norm = <<>>
    /\ node_features = <<>>
    /\ curr_coords = <<>>
    /\ layer = 0
    /\ cum_a_t = <<>>
    /\ predicted_noise = <<>>
    /\ pc = "idle"

InitFrame == FrameInit /\ TrainInit /\ EncIdle
NextFrame ==
    \/ Call \/ Embed \/ LayerStep \/ ExtractNoise
    \/ Boot \/ TrainBatch \/ OptimizerStep
    \/ SamplerTurn
SpecFrame == InitFrame /\ [][NextFrame]_vars

---------------------------------------------------------------------------
(* Claims *)

\* the schedule arguments the constructor is documented for
ValidScheduleArgs ==
    /\ diffusion_steps >= 1
    /\ RLess(RInt(0), beta_start)
    /\ RLeq(beta_start, beta_end)
    /\ RLess(beta_end, RInt(1))

ScheduleLengths ==
    /\ Len(betas) = diffusion_steps
    /\ Len(alphas) = diffusion_steps
    /\ Len(alpha_cumprod) = diffusion_steps
    /\ Len(alpha_cumprod_prev) = diffusion_steps

BetasNonDecreasing ==
    \A i, j \in 1..Len(betas) : i <= j => RLeq(betas[i], betas[j])

CumprodDecreasingInUnit ==
    /\ \A t \in 2..Len(alpha_cumprod) :
          RLess(alpha_cumprod[t], alpha_cumprod[t - 1])
    /\ \A t \in 1..Len(alpha_cumprod) :
          RLess(RInt(0), alpha_cumprod[t]) /\ RLess(alpha_cumprod[t], RInt(1))

PrevIsShift ==
    /\ alpha_cumprod_prev[1] = RInt(1)
    /\ \A t \in 2..Len(alpha_cumprod_prev) :
          alpha_cumprod_prev[t] = alpha_cumprod[t - 1]

Rotations ==
    { << <<0, -1, 0>>, <<1, 0, 0>>, <<0, 0, 1>> >>,
      << <<1, 0, 0>>, <<0, 0, -1>>, <<0, 1, 0>> >>,
      << <<-1, 0, 0>>, <<0, 1, 0>>, <<0, 0, -1>> >>,
      << <<0, 0, 1>>, <<1, 0, 0>>, <<0, 1, 0>> >> }

RotateVec(R, v) == [k \in 1..3 |-> R[k][1] * v[1] + R[k][2] * v[2] + R[k][3] * v[3]]

Rotate(R, c) == [i \in 1..Len(c) |-> [a \in 1..Len(c[i]) |-> RotateVec(R, c[i][a])]]

Translations ==
    { <<FxScale, 0, 0>>, <<-2 * FxScale, 3 * FxScale, FxScale>>, <<7, -5, 3>> }

Translate(t, c) == [i \in 1..Len(c) |-> [a \in 1..Len(c[i]) |-> VAdd(c[i][a], t)]]

\* the layer the stack applies next, on the current coordinates and features
NextLayerOn(c) ==
    EGNNLayer(LayerWeights(weights, layer + 1), c, node_features[1],
              atom_mask[1], residue_indices[1])

\* C1, as claimed: the layer run on the rotated coordinates returns the
\* rotation of the coordinates it returns on the unrotated ones, for every
\* rotation, input and weights.
C1_RotationEquivariant_AsClaimed ==
    (pc = "layers" /\ layer < num_egnn_layers) =>
        \A R \in Rotations :
            NextLayerOn(Rotate(R, curr_coords[1])).coords
                = Rotate(R, NextLayerOn(curr_coords[1]).coords)

\* the layer is rotation equivariant when the edge MLP gives the three
\* directional inputs no weight
RotationEquivariantWhenBlind ==
    (pc = "layers" /\ layer < num_egnn_layers /\ weights = "blind") =>
        \A R \in Rotations :
            NextLayerOn(Rotate(R, curr_coords[1])).coords
                = Rotate(R, NextLayerOn(curr_coords[1]).coords)

\* C2: adding a constant vector to every input coordinate leaves the
\* directional vectors, the per-residue coordinate update and the output node
\* features unchanged, and adds the same vector to every output coordinate,
\* of valid and of masked-out atom slots alike.
C2_TranslationEquivariant ==
    (pc = "layers" /\ layer < num_egnn_layers) =>
        LET w == LayerWeights(weights, layer + 1)
            c == curr_coords[1]
            d == DirectionalVectors(c)
            msg == EdgeMessages(w, node_features[1], residue_indices[1], d)
            upd == CoordUpdates(w, msg, d)
            out == NextLayerOn(c)
        IN  \A t \in Translations :
                LET ct == Translate(t, c)
                    dt == DirectionalVectors(ct)
                    msgt == EdgeMessages(w, node_features[1],
                                         residue_indices[1], dt)
                    outt == NextLayerOn(ct)
                IN  /\ dt = d
                    /\ CoordUpdates(w, msgt, dt) = upd
                    /\ outt.coords = Translate(t, out.coords)
                    /\ outt.node_features = out.node_features

\* a layer has moved a valid atom and left a masked-out one, on a sequence of
\* several residues
C2_Witness ==
    /\ pc = "layers"
    /\ layer >= 1
    /\ Len(coords[1]) >= 2
    /\ \E i \in 1..Len(coords[1]) : \E a \in 1..Len(coords[1][i]) :
          atom_mask[1][i][a] = 1 /\ curr_coords[1][i][a] # coords[1][i][a]
    /\ \E i \in 1..Len(coords[1]) : \E a \in 1..Len(coords[1][i]) :
          atom_mask[1][i][a] = 0

\* train.py line 145: the entry the trainer noises the coordinates with
TrainerAlpha(t) == IndexTensor(alpha_cumprod, t)

\* sample.py line 47: the entry the sampler reads as alpha_t
SamplerAlpha(t) == IndexTensor(alpha_cumprod, t)

AllTimesInRange == \A b \in 1..Len(times) : times[b] \in 0..(diffusion_steps - 1)

\* C3, as claimed: for timesteps in 0..diffusion_steps-1, the cumulative
\* alpha forward uses for batch element b is alpha_cumprod[times[b]], the
\* entry the trainer noised with and the sampler reads as alpha_t.
C3_SameScheduleEntry_AsClaimed ==
    (pc = "done" /\ AllTimesInRange) =>
        \A b \in 1..Len(times) :
            /\ cum_a_t[b] = TrainerAlpha(times[b])
            /\ cum_a_t[b] = SamplerAlpha(times[b])

\* C4, as claimed: a call with some timestep outside 0..diffusion_steps-1 ends
\* in an out-of-range error and returns nothing.
C4_OutOfRangeFails_AsClaimed ==
    (pc \in {"done", "error"} /\ ~AllTimesInRange) =>
        (pc = "error" /\ predicted_noise = <<>>)

Slots == {<<b, i, a>> \in (1..MaxBatch) \X (1..MaxResidues) \X (1..MaxAtoms) :
             b <= Len(coords) /\ i <= Len(coords[b]) /\ a <= Len(coords[b][i])}

\* C5: an atom slot whose mask entry is 0 keeps its input coordinates through
\* every layer of the stack, and its entry of the returned noise is zero in
\* all three components.
C5_MaskedSlotsUntouched ==
    \A s \in Slots :
        atom_mask[s[1]][s[2]][s[3]] = 0 =>
            /\ pc \in {"layers", "done", "error"} =>
                  curr_coords[s[1]][s[2]][s[3]] = coords[s[1]][s[2]][s[3]]
            /\ pc = "done" => predicted_noise[s[1]][s[2]][s[3]] = VZero

\* a call through a stack of layers has returned; a masked-out slot exists,
\* and a valid slot was moved by the layers and got a non-zero noise entry
C5_Witness ==
    /\ pc = "done"
    /\ layer >= 1
    /\ \E s \in Slots : atom_mask[s[1]][s[2]][s[3]] = 0
    /\ \E s \in Slots :
          /\ atom_mask[s[1]][s[2]][s[3]] = 1
          /\ curr_coords[s[1]][s[2]][s[3]] # coords[s[1]][s[2]][s[3]]
          /\ predicted_noise[s[1]][s[2]][s[3]] # VZero

\* every coordinate of the tensor lies in -10 .. 10
WithinClamp(c) ==
    \A i \in 1..Len(c) : \A a \in 1..Len(c[i]) : \A k \in 1..3 :
        -ClampBound * FxScale <= c[i][a][k] /\ c[i][a][k] <= ClampBound * FxScale

\* the returned array has shape [max_residues, num_atoms, 3], four backbone
\* slots per residue, zeros in every other slot, backbone slots in -10 .. 10
ReturnedBackbone ==
    /\ Len(smp_out) = smp_max_residues
    /\ \A i \in 1..Len(smp_out) :
          /\ Len(smp_out[i]) = smp_num_atoms
          /\ Cardinality({a \in 1..smp_num_atoms : smp_atom_mask[i][a] = 1}) = 4
          /\ \A a \in 1..smp_num_atoms :
                /\ Len(smp_out[i][a]) = 3
                /\ smp_atom_mask[i][a] = 0 => smp_out[i][a] = VZero
    /\ WithinClamp(smp_out)

C9_ReverseLoopOrder ==
    /\ \A k \in 1..Len(smp_calls) : smp_calls[k] = smp_steps - k
    /\ smp_pc = "done" => Len(smp_calls) = smp_steps
    /\ \A k \in 1..Len(smp_reads) :
          /\ smp_reads[k].model_t = smp_calls[k]
          /\ smp_reads[k].prev_index = smp_calls[k]
          /\ smp_reads[k].alpha_index = smp_calls[k]
    /\ (smp_pc \in {"loop", "done"} /\ Len(smp_calls) >= 1) =>
          LET t == smp_calls[Len(smp_calls)]
          IN  /\ t > 0 =>
                    \E g \in Gaussians :
                        smp_z = ScaleAll(Randn(g, smp_max_residues, smp_num_atoms),
                                         smp_noise_scale)
              /\ t = 0 => (smp_z = ZerosLike(smp_coords) /\ smp_t < 0)

\* a run of three steps has returned after the calls 2, 1, 0
C9_Witness ==
    /\ smp_pc = "done"
    /\ smp_steps = 3
    /\ smp_calls = <<2, 1, 0>>
    /\ Len(smp_reads) = 3
    /\ smp_z = ZerosLike(smp_coords)

\* C10, as claimed: in every run of the driver, also one resumed from the
\* latest checkpoint after an interruption, train_losses holds exactly one
\* entry per completed epoch, those of epochs 0, 1, ... in order, and the next
\* epoch to train is the first one not yet completed.
C10_ResumeAtNextEpoch_AsClaimed ==
    trn_pc = "train" =>
        /\ train_losses = [k \in 1..Len(train_losses) |-> k - 1]
        /\ epoch = Len(train_losses)

\* C7, as claimed: the encoder returns, for every position of the input, a
\* vector of width exactly embed_dim whose first half holds the sine terms
\* and whose second half holds the cosine terms of the same angles, so that
\* position 0 encodes to zeros followed by ones.
C7_EncodingShape_AsClaimed ==
    pe_out # <<>> =>
        /\ Len(pe_out) = Len(pe_x)
        /\ \A i \in 1..Len(pe_out) :
              LET e == pe_out[i]
                  half == Len(e) \div 2
              IN  /\ Len(e) = pe_embed_dim
                  /\ \A k \in 1..half :
                        /\ e[k].fn = "sin" /\ e[half + k].fn = "cos"
                        /\ e[k].x = pe_x[i] /\ e[half + k].x = pe_x[i]
                        /\ e[k].k = e[half + k].k
                        /\ pe_x[i] = RInt(0) =>
                              /\ TermValue(e[k]) = 0
                              /\ TermValue(e[half + k]) = FxScale

\* the shape of a tensor [B, N, num_atoms, 3] as the lengths of its axes
ShapeOf(c) ==
    [b \in 1..Len(c) |-> [i \in 1..Len(c[b]) |-> [a \in 1..Len(c[b][i]) |->
        Len(c[b][i][a])]]]

CallerTensorsKept ==
    /\ coords' = coords
    /\ residue_indices' = residue_indices
    /\ times' = times
    /\ atom_mask' = atom_mask

ScheduleKept ==
    /\ diffusion_steps' = diffusion_steps
    /\ betas' = betas
    /\ alphas' = alphas
    /\ alpha_cumprod' = alpha_cumprod
    /\ alpha_cumprod_prev' = alpha_cumprod_prev

============================================================================
